---- MODULE Spec2Model ----
(***************************************************************************)
(* A model of the chained hash table of src/src/lib.rs (crate rehash):     *)
(* HashMap<K, V> with its bucket vector and item counter, the operations   *)
(* new, insert, get, contains_key, remove, len, is_empty, the private      *)
(* resize, and the borrowing iterator Iter.                                *)
(*                                                                         *)
(* Option<T> is modelled as a sequence of length at most one: None is <<>> *)
(* and Some(x) is <<x>>.  Vec indices are 0-based in the source; a Vec is  *)
(* a TLA+ sequence here, so source index i is sequence index i + 1.        *)
(***************************************************************************)
EXTENDS Integers, Sequences, FiniteSets, TLC

\* Bounds of the model: the keys are 1..MaxKey, a key hashes to a value in
\* 0..MaxHash, an exhausted iterator is called at most MaxExtraNext more
\* times, and the load test is compared with the 3/4 ratio up to MaxLoadCheck.
MaxKey == 3
MaxHash == 2
MaxExtraNext == 1
MaxLoadCheck == 12

Keys == 1..MaxKey
HashVals == 0..MaxHash

\* V is opaque to the table: values are moved, replaced and returned, never
\* inspected.  Two distinguishable values tell an old value from a new one.
Vals == BOOLEAN

\* K is used through Hash and Eq alone, so the table is symmetric in the keys:
\* the keys are numbered in the order of their hash values.
HashFns == {h \in [Keys -> HashVals] : \A a, b \in Keys : a <= b => h[a] <= h[b]}

None == <<>>
Some(x) == <<x>>

VARIABLES
    hash,       \* the value DefaultHasher yields for each key (fixed per process)
    buckets,    \* HashMap::buckets : Vec<Vec<(K, V)>>
    items,      \* HashMap::items
    panicked,   \* TRUE once an operation has panicked
    iter,       \* the live Iter over the map, if any: its bucket and at cursors
    yielded,    \* history: the pairs the live iterator has returned so far
    model,      \* history: the abstract map, key -> Option<V>
    everInserted, \* history: TRUE once insert has been called
    last        \* history: the last call, its arguments, result and pre-state

vars == <<hash, buckets, items, panicked, iter, yielded, model, everInserted, last>>

----------------------------------------------------------------------------
\* Sequence helpers.

RECURSIVE Flatten(_)
\* The entries of all buckets, bucket 0 first, each bucket first to last.
Flatten(bs) == IF bs = <<>> THEN <<>> ELSE Head(bs) \o Flatten(Tail(bs))

\* The multiset of the elements of a sequence, as element -> multiplicity.
BagOf(s) ==
    [e \in {s[i] : i \in DOMAIN s} |-> Cardinality({i \in DOMAIN s : s[i] = e})]

KeysOf(s) == {s[i][1] : i \in DOMAIN s}

----------------------------------------------------------------------------
\* HashMap::bucket, lib.rs 29-42.

BucketNoEmptyCheck(bs, key) ==
    IF Len(bs) = 0 THEN Some(0) ELSE Some(hash[key] % Len(bs))

Bucket(bs, key) ==
    IF Len(bs) = 0 THEN None ELSE Some(hash[key] % Len(bs))

\* bucket.iter().position(|(ekey, _)| ekey == key), lib.rs 104; the scans of
\* lib.rs 61-65 and 80-83 find the same first match.  0 stands for None,
\* otherwise the result is the sequence index (source index + 1).
PositionDefaultFirst(bucket, key) ==
    LET hits == {i \in DOMAIN bucket : bucket[i][1] = key}
    IN IF hits = {} THEN (IF Len(bucket) > 0 THEN 1 ELSE 0)
       ELSE CHOOSE i \in hits : \A j \in hits : i <= j

PositionFirstOnly(bucket, key) ==
    IF Len(bucket) > 0 /\ bucket[1][1] = key THEN 1 ELSE 0

Position(bucket, key) ==
    LET hits == {i \in DOMAIN bucket : bucket[i][1] = key}
    IN IF hits = {} THEN 0 ELSE CHOOSE i \in hits : \A j \in hits : i <= j

----------------------------------------------------------------------------
\* HashMap::resize, lib.rs 118-140.

INITIAL_BUCKETS == 1

TargetSizePlusOne(n) == IF n = 0 THEN INITIAL_BUCKETS ELSE n + 1

TargetSizeTwoFirst(n) == IF n = 0 THEN 2 * INITIAL_BUCKETS ELSE 2 * n

TargetSize(n) == IF n = 0 THEN INITIAL_BUCKETS ELSE 2 * n

RECURSIVE Rehash(_, _)
\* The loop of lib.rs 128-137: each drained entry is pushed onto the new
\* bucket its key hashes to, against the new bucket count.
Rehash(entries, new) ==
    IF entries = <<>> THEN new
    ELSE LET e == Head(entries)
             b == (hash[e[1]] % Len(new)) + 1
         IN Rehash(Tail(entries), [new EXCEPT ![b] = Append(@, e)])

RECURSIVE RehashAllToZero(_, _)
RehashAllToZero(entries, new) ==
    IF entries = <<>> THEN new
    ELSE RehashAllToZero(Tail(entries), [new EXCEPT ![1] = Append(@, Head(entries))])

ResizeDropsLastBucket(bs) ==
    LET target == TargetSize(Len(bs))
        kept == IF Len(bs) = 0 THEN bs ELSE SubSeq(bs, 1, Len(bs) - 1)
    IN Rehash(Flatten(kept), [i \in 1..target |-> <<>>])

ResizeNoRehash(bs) ==
    LET target == TargetSize(Len(bs))
    IN RehashAllToZero(Flatten(bs), [i \in 1..target |-> <<>>])

Resize(bs) ==
    LET target == TargetSize(Len(bs))
    IN Rehash(Flatten(bs), [i \in 1..target |-> <<>>])

----------------------------------------------------------------------------
\* HashMap::insert, lib.rs 49-70.

\* The load check of lib.rs 51, on the bucket count n and item count c.
NeedsResizeOnlyEmpty(n, c) == n = 0

NeedsResizeInclusive(n, c) == n = 0 \/ c >= (3 * n) \div 4

NeedsResize(n, c) == n = 0 \/ c > (3 * n) \div 4

\* lib.rs 61-69 on the counter: an update returns early, a new key counts.
ItemsAfterInsertAlways(it, pos) == it + 1

ItemsAfterInsertNever(it, pos) == it

ItemsAfterInsert(it, pos) == IF pos # 0 THEN it ELSE it + 1

\* The whole call: the table after it, the returned Option<V>, whether it
\* panicked, and the bucket vector as it stood after the load check.
InsertCall(bs, it, key, value) ==
    LET resized == NeedsResize(Len(bs), it)
        mid == IF resized THEN Resize(bs) ELSE bs
        b == Bucket(mid, key)
    IN IF b = None \/ b[1] >= Len(mid)
       THEN [buckets |-> mid, items |-> it, ret |-> None, panic |-> TRUE,
             resized |-> resized, mid |-> mid]
       ELSE LET bi == b[1] + 1
                pos == Position(mid[bi], key)
            IN [buckets |->
                    IF pos # 0
                    THEN [mid EXCEPT ![bi][pos] = <<@[1], value>>]
                    ELSE [mid EXCEPT ![bi] = Append(@, <<key, value>>)],
                items |-> ItemsAfterInsert(it, pos),
                ret |-> IF pos # 0 THEN Some(mid[bi][pos][2]) ELSE None,
                panic |-> FALSE,
                resized |-> resized,
                mid |-> mid]

----------------------------------------------------------------------------
\* HashMap::get and HashMap::contains_key, lib.rs 74-93.

GetFirstOnly(bs, key) ==
    LET b == Bucket(bs, key)
    IN IF b = None THEN [ret |-> None, panic |-> FALSE]
       ELSE IF b[1] >= Len(bs) THEN [ret |-> None, panic |-> TRUE]
       ELSE LET pos == PositionFirstOnly(bs[b[1] + 1], key)
            IN [ret |-> IF pos = 0 THEN None ELSE Some(bs[b[1] + 1][pos][2]),
                panic |-> FALSE]

GetCall(bs, key) ==
    LET b == Bucket(bs, key)
    IN IF b = None THEN [ret |-> None, panic |-> FALSE]
       ELSE IF b[1] >= Len(bs) THEN [ret |-> None, panic |-> TRUE]
       ELSE LET pos == Position(bs[b[1] + 1], key)
            IN [ret |-> IF pos = 0 THEN None ELSE Some(bs[b[1] + 1][pos][2]),
                panic |-> FALSE]

Get(bs, key) == GetCall(bs, key).ret

ContainsKey(bs, key) == Get(bs, key) # None

----------------------------------------------------------------------------
\* HashMap::remove, lib.rs 97-107.

\* Vec::swap_remove(i): the last element takes the place of the removed one.
PopOnly(s, i) == SubSeq(s, 1, Len(s) - 1)

\* Vec::remove(i): the later elements shift down, the order is kept.
ShiftRemove(s, i) == SubSeq(s, 1, i - 1) \o SubSeq(s, i + 1, Len(s))

SwapRemove(s, i) ==
    IF i = Len(s) THEN SubSeq(s, 1, Len(s) - 1)
    ELSE [SubSeq(s, 1, Len(s) - 1) EXCEPT ![i] = s[Len(s)]]

ItemsAfterRemoveKept(it) == it

ItemsAfterRemove(it) == it - 1

RemoveCall(bs, it, key) ==
    LET b == Bucket(bs, key)
        same == [buckets |-> bs, items |-> it, ret |-> None, panic |-> FALSE]
    IN IF b = None THEN same
       ELSE IF b[1] >= Len(bs) THEN [same EXCEPT !.panic = TRUE]
       ELSE LET bi == b[1] + 1
                pos == Position(bs[bi], key)
            IN IF pos = 0 THEN same
               \* items -= 1 on a zero counter overflows: a panic in a build
               \* with overflow checks
               ELSE IF it = 0 THEN [same EXCEPT !.panic = TRUE]
               ELSE [buckets |-> [bs EXCEPT ![bi] = SwapRemove(@, pos)],
                     items |-> ItemsAfterRemove(it),
                     ret |-> Some(bs[bi][pos][2]),
                     panic |-> FALSE]

----------------------------------------------------------------------------
\* Iter::next, lib.rs 152-172.

RECURSIVE IterNextKeepsAt(_, _, _)
IterNextKeepsAt(bs, bucket, at) ==
    IF bucket < Len(bs)
    THEN IF at < Len(bs[bucket + 1])
         THEN [bucket |-> bucket, at |-> at + 1, ret |-> Some(bs[bucket + 1][at + 1])]
         ELSE IterNextKeepsAt(bs, bucket + 1, at)
    ELSE [bucket |-> bucket, at |-> at, ret |-> None]

RECURSIVE IterNextStartsAtOne(_, _, _)
IterNextStartsAtOne(bs, bucket, at) ==
    IF bucket < Len(bs)
    THEN IF at < Len(bs[bucket + 1])
         THEN [bucket |-> bucket, at |-> at + 1, ret |-> Some(bs[bucket + 1][at + 1])]
         ELSE IterNextStartsAtOne(bs, bucket + 1, 1)
    ELSE [bucket |-> bucket, at |-> at, ret |-> None]

RECURSIVE IterNextRestarts(_, _, _)
IterNextRestarts(bs, bucket, at) ==
    IF bucket < Len(bs)
    THEN IF at < Len(bs[bucket + 1])
         THEN [bucket |-> bucket, at |-> at + 1, ret |-> Some(bs[bucket + 1][at + 1])]
         ELSE IterNextRestarts(bs, bucket + 1, 0)
    ELSE [bucket |-> 0, at |-> 0, ret |-> None]

RECURSIVE IterNext(_, _, _)
\* One call of next from the cursor (bucket, at): the cursor afterwards and
\* the returned Option<(K, V)>.
IterNext(bs, bucket, at) ==
    IF bucket < Len(bs)
    THEN IF at < Len(bs[bucket + 1])
         THEN [bucket |-> bucket, at |-> at + 1, ret |-> Some(bs[bucket + 1][at + 1])]
         ELSE IterNext(bs, bucket + 1, 0)
    ELSE [bucket |-> bucket, at |-> at, ret |-> None]

----------------------------------------------------------------------------
\* The state machine.

NoIter == [active |-> FALSE, bucket |-> 0, at |-> 0, calls |-> 0]

Call(op, key, value, ret, resized, mid) ==
    [op |-> op, key |-> key, value |-> value, ret |-> ret, resized |-> resized,
     preBuckets |-> buckets, preItems |-> items, mid |-> mid,
     preIter |-> iter, preInserted |-> everInserted]

\* HashMap::new, lib.rs 15-21, for every hash function the process may have.
Init ==
    /\ hash \in HashFns
    /\ buckets = <<>>
    /\ items = 0
    /\ panicked = FALSE
    /\ iter = NoIter
    /\ yielded = <<>>
    /\ model = [k \in Keys |-> None]
    /\ everInserted = FALSE
    /\ last = [op |-> "new", key |-> 0, value |-> FALSE, ret |-> None, resized |-> FALSE,
               preBuckets |-> <<>>, preItems |-> 0, mid |-> <<>>,
               preIter |-> NoIter, preInserted |-> FALSE]

\* A call that takes &mut self cannot be made while an Iter borrows the map.
CanMutate == ~panicked /\ ~iter.active

Insert(key, value) ==
    /\ CanMutate
    /\ \E r \in {InsertCall(buckets, items, key, value)} :
          /\ buckets' = r.buckets
          /\ items' = r.items
          /\ panicked' = r.panic
          /\ model' = IF r.panic THEN model ELSE [model EXCEPT ![key] = Some(value)]
          /\ last' = Call("insert", key, value, r.ret, r.resized, r.mid)
    /\ everInserted' = TRUE
    /\ UNCHANGED <<hash, iter, yielded>>

Remove(key) ==
    /\ CanMutate
    /\ \E r \in {RemoveCall(buckets, items, key)} :
          /\ buckets' = r.buckets
          /\ items' = r.items
          /\ panicked' = r.panic
          /\ model' = IF r.panic THEN model ELSE [model EXCEPT ![key] = None]
          /\ last' = Call("remove", key, FALSE, r.ret, FALSE, buckets)
    /\ UNCHANGED <<hash, iter, yielded, everInserted>>

GetOp(key) ==
    /\ CanMutate
    /\ \E r \in {GetCall(buckets, key)} :
          /\ panicked' = r.panic
          /\ last' = Call("get", key, FALSE, r.ret, FALSE, buckets)
    /\ UNCHANGED <<hash, buckets, items, iter, yielded, model, everInserted>>

ContainsKeyOp(key) ==
    /\ CanMutate
    /\ \E r \in {GetCall(buckets, key)} :
          /\ panicked' = r.panic
          /\ last' = Call("contains_key", key, FALSE, Some(ContainsKey(buckets, key)),
                          FALSE, buckets)
    /\ UNCHANGED <<hash, buckets, items, iter, yielded, model, everInserted>>

\* HashMap::len, lib.rs 110-112.
LenOf(it) == it

\* HashMap::is_empty, lib.rs 114-116.
IsEmpty(it) == it = 0

LenOp ==
    /\ CanMutate
    /\ last' = Call("len", 0, FALSE, Some(LenOf(items)), FALSE, buckets)
    /\ UNCHANGED <<hash, buckets, items, panicked, iter, yielded, model, everInserted>>

IsEmptyOp ==
    /\ CanMutate
    /\ last' = Call("is_empty", 0, FALSE, Some(IsEmpty(items)), FALSE, buckets)
    /\ UNCHANGED <<hash, buckets, items, panicked, iter, yielded, model, everInserted>>

\* IntoIterator for &HashMap, lib.rs 178-184.
IntoIter ==
    /\ CanMutate
    /\ iter' = [active |-> TRUE, bucket |-> 0, at |-> 0, calls |-> 0]
    /\ yielded' = <<>>
    /\ last' = Call("into_iter", 0, FALSE, None, FALSE, buckets)
    /\ UNCHANGED <<hash, buckets, items, panicked, model, everInserted>>

Next_ ==
    /\ ~panicked
    /\ iter.active
    /\ iter.calls < items + 1 + MaxExtraNext
    /\ \E r \in {IterNext(buckets, iter.bucket, iter.at)} :
          /\ iter' = [active |-> TRUE, bucket |-> r.bucket, at |-> r.at,
                      calls |-> iter.calls + 1]
          /\ yielded' = IF r.ret = None THEN yielded ELSE Append(yielded, r.ret[1])
          /\ last' = Call("next", 0, FALSE, r.ret, FALSE, buckets)
    /\ UNCHANGED <<hash, buckets, items, panicked, model, everInserted>>

\* The Iter goes out of scope and the borrow ends.
DropIter ==
    /\ ~panicked
    /\ iter.active
    /\ iter' = NoIter
    /\ yielded' = <<>>
    \* the history keeps the cursor before a call of next alone
    /\ last' = [Call("drop_iter", 0, FALSE, None, FALSE, buckets) EXCEPT !.preIter = NoIter]
    /\ UNCHANGED <<hash, buckets, items, panicked, model, everInserted>>

Next ==
    \/ \E key \in Keys, value \in Vals : Insert(key, value)
    \/ \E key \in Keys : Remove(key)
    \/ \E key \in Keys : GetOp(key)
    \/ \E key \in Keys : ContainsKeyOp(key)
    \/ LenOp
    \/ IsEmptyOp
    \/ IntoIter
    \/ Next_
    \/ DropIter

Spec == Init /\ [][Next]_vars

\* The mutating calls alone: every table the program can build.
NextMap ==
    \/ \E key \in Keys, value \in Vals : Insert(key, value)
    \/ \E key \in Keys : Remove(key)

SpecMap == Init /\ [][NextMap]_vars

\* The mutating calls and the iterator.
NextIter ==
    \/ \E key \in Keys, value \in Vals : Insert(key, value)
    \/ \E key \in Keys : Remove(key)
    \/ IntoIter
    \/ Next_
    \/ DropIter

SpecIter == Init /\ [][NextIter]_vars

----------------------------------------------------------------------------
\* The claims.

Entries == Flatten(buckets)

Present == {k \in Keys : model[k] # None}

\* C1: the table is the abstract map: after any sequence of insert and remove
\* calls, get(k) is the value of the latest insert(k, v) not followed by a
\* remove(k), none if there is none, and contains_key(k) holds exactly when
\* get(k) is not none, however many resizes happened.
C1_AbstractMap ==
    \A k \in Keys :
        /\ Get(buckets, k) = model[k]
        /\ ContainsKey(buckets, k) <=> model[k] # None

\* A present key was removed from a table that has grown to four buckets and
\* still holds another key.
C1_Witness ==
    /\ last.op = "remove"
    /\ last.ret # None
    /\ Len(buckets) = 4
    /\ Present # {}

\* C2: len() is the number of entries over all buckets, which is the number
\* of distinct keys present, and is_empty() holds exactly when it is 0.
C2_LenCountsEntries ==
    /\ LenOf(items) = Len(Entries)
    /\ Len(Entries) = Cardinality(KeysOf(Entries))
    /\ Len(Entries) = Cardinality(Present)
    /\ IsEmpty(items) <=> Cardinality(Present) = 0

\* A removal took the table from two entries to one after it had grown.
C2_Witness ==
    /\ last.op = "remove"
    /\ last.preItems = 2
    /\ items = 1
    /\ Len(buckets) >= 2

\* C3: insert(k, v2) over k -> v1 returns Some(v1), leaves get(k) = Some(v2)
\* and len() unchanged; insert(k, v) of an absent k returns none and adds 1
\* to len(); with or without a resize.
C3_InsertContract ==
    last.op = "insert" =>
        LET old == Get(last.preBuckets, last.key)
        IN /\ last.ret = old
           /\ Get(buckets, last.key) = Some(last.value)
           /\ LenOf(items) = IF old # None THEN last.preItems ELSE last.preItems + 1

\* An insert that resized the table and replaced a different old value.
C3_Witness ==
    /\ last.op = "insert"
    /\ last.resized
    /\ Get(last.preBuckets, last.key) # None
    /\ Get(last.preBuckets, last.key) # Some(last.value)

\* C4: remove(k) of a key mapped to v returns Some(v); afterwards get(k) is
\* none, contains_key(k) is false and len() is one less.
C4_RemoveContract ==
    (last.op = "remove" /\ Get(last.preBuckets, last.key) # None) =>
        /\ last.ret = Get(last.preBuckets, last.key)
        /\ Get(buckets, last.key) = None
        /\ ~ContainsKey(buckets, last.key)
        /\ LenOf(items) = last.preItems - 1

\* The removed key was not the last entry of its bucket.
C4_Witness ==
    /\ last.op = "remove"
    /\ last.ret # None
    /\ \E i \in DOMAIN last.preBuckets :
           /\ Len(last.preBuckets[i]) >= 2
           /\ last.preBuckets[i][1][1] = last.key

\* C5: on a table with zero buckets get and remove return none and
\* contains_key returns false, none panics, and the table still has zero
\* buckets and count 0.
C5_EmptyTable ==
    (last.op \in {"get", "contains_key", "remove"} /\ Len(last.preBuckets) = 0) =>
        /\ ~panicked
        /\ last.ret = IF last.op = "contains_key" THEN Some(FALSE) ELSE None
        /\ Len(buckets) = 0
        /\ items = 0

\* remove was called on the table before any insert.
C5_Witness ==
    /\ last.op = "remove"
    /\ Len(last.preBuckets) = 0
    /\ ~panicked

\* C6: an iterator run to its end has yielded exactly len() pairs: every
\* association of the map once, and nothing else.
C6_IterationYieldsMap ==
    (last.op = "next" /\ last.ret = None) =>
        /\ Len(yielded) = LenOf(items)
        /\ \A k \in Present :
               Cardinality({i \in DOMAIN yielded : yielded[i] = <<k, model[k][1]>>}) = 1
        /\ \A i \in DOMAIN yielded : model[yielded[i][1]] = Some(yielded[i][2])

\* The iterator ended after three pairs, over a table with an empty bucket
\* and a bucket of two entries.
C6_Witness ==
    /\ last.op = "next"
    /\ last.ret = None
    /\ Len(yielded) = 3
    /\ \E i \in DOMAIN buckets : buckets[i] = <<>>
    /\ \E i \in DOMAIN buckets : Len(buckets[i]) >= 2

\* C7: a resize keeps the contents: get(k) is the same right after it as
\* right before it for every k, and the count and the multiset of entries
\* over all buckets are unchanged.
C7_ResizePreserves ==
    (last.op = "insert" /\ last.resized) =>
        /\ \A k \in Keys : Get(last.mid, k) = Get(last.preBuckets, k)
        /\ BagOf(Flatten(last.mid)) = BagOf(Flatten(last.preBuckets))
        /\ Len(Flatten(last.mid)) = last.preItems

\* A resize from two buckets holding two entries in both buckets.
C7_Witness ==
    /\ last.op = "insert"
    /\ last.resized
    /\ Len(last.preBuckets) = 2
    /\ last.preItems = 2
    /\ \A i \in DOMAIN last.preBuckets : last.preBuckets[i] # <<>>

\* C8: no two entries of the table have equal keys, within a bucket or
\* across buckets, and after an insert exactly one entry has its key.
C8_NoDuplicateKeys ==
    /\ \A i, j \in DOMAIN Entries : Entries[i][1] = Entries[j][1] => i = j
    /\ last.op = "insert" =>
           Cardinality({i \in DOMAIN Entries : Entries[i][1] = last.key}) = 1

\* An insert resized the table and then updated a key that was not the first
\* entry of its bucket.
C8_Witness ==
    /\ last.op = "insert"
    /\ last.resized
    /\ last.ret # None
    /\ \E i \in DOMAIN buckets :
           /\ Len(buckets[i]) >= 2
           /\ buckets[i][2][1] = last.key

\* C9: with bucket_count > 0 every entry in bucket i has
\* hash(key) mod bucket_count = i for the current bucket count.
C9_Placement ==
    \A i \in DOMAIN buckets :
        \A j \in DOMAIN buckets[i] :
            hash[buckets[i][j][1]] % Len(buckets) = i - 1

\* A resize moved a stored entry to another bucket index.
C9_Witness ==
    /\ last.op = "insert"
    /\ last.resized
    /\ \E k \in Keys :
           /\ Get(last.preBuckets, k) # None
           /\ Bucket(last.preBuckets, k) # Bucket(last.mid, k)

\* C10: insert resizes exactly when, at entry, bucket_count is 0 or
\* 4 * count > 3 * bucket_count, which is the code's integer test
\* count > 3 * bucket_count / 4; the count is the one before the new entry;
\* an insert that only updates a key resizes too; at most one resize happens.
C10_ResizeTrigger ==
    /\ \A n, c \in 0..MaxLoadCheck : NeedsResize(n, c) <=> (n = 0 \/ 4 * c > 3 * n)
    /\ last.op = "insert" =>
           LET n == Len(last.preBuckets)
               c == last.preItems
           IN /\ (Len(buckets) # n) <=> (n = 0 \/ 4 * c > 3 * n)
              /\ Len(buckets) # n => Len(buckets) = IF n = 0 THEN 1 ELSE 2 * n

\* An insert that only updated a key doubled the bucket count.
C10_Witness ==
    /\ last.op = "insert"
    /\ last.ret # None
    /\ items = last.preItems
    /\ Len(last.preBuckets) >= 1
    /\ Len(buckets) = 2 * Len(last.preBuckets)

\* C11: where insert locates the target bucket, after the load check and any
\* resize, count <= 3 * bucket_count / 4 in integer division; so in every
\* state with bucket_count > 0, count <= 3 * bucket_count / 4 + 1.
C11_Headroom ==
    /\ last.op = "insert" => last.preItems <= (3 * Len(last.mid)) \div 4
    /\ Len(buckets) > 0 => items <= (3 * Len(buckets)) \div 4 + 1

\* An insert doubled a table that was one entry over its threshold and then
\* added a key, which leaves the new table exactly at its threshold.
C11_Witness ==
    /\ last.op = "insert"
    /\ last.resized
    /\ Len(last.preBuckets) >= 1
    /\ last.preItems = (3 * Len(last.preBuckets)) \div 4 + 1
    /\ last.ret = None
    /\ items = (3 * Len(buckets)) \div 4

RECURSIVE IsPowerOfTwo(_)
IsPowerOfTwo(n) == n = 1 \/ (n > 1 /\ n % 2 = 0 /\ IsPowerOfTwo(n \div 2))

\* C12: the bucket count changes only in insert, from 0 to 1 or from n to
\* 2n; it is 0 or a power of two in every state and never decreases.
C12_BucketCountGrowth ==
    /\ Len(buckets) # Len(last.preBuckets) =>
           /\ last.op = "insert"
           /\ Len(buckets) = IF Len(last.preBuckets) = 0 THEN 1
                             ELSE 2 * Len(last.preBuckets)
    /\ Len(buckets) >= Len(last.preBuckets)
    /\ Len(buckets) = 0 \/ IsPowerOfTwo(Len(buckets))

\* The last entry was removed from a table of four buckets, which keeps them.
C12_Witness ==
    /\ last.op = "remove"
    /\ last.ret # None
    /\ items = 0
    /\ Len(buckets) = 4

\* C13: new() gives zero buckets and count 0; the bucket count is 0 exactly
\* when insert has never been called; the first insert leaves one bucket
\* holding its one entry; removing every entry afterwards does not bring the
\* table back to zero buckets.
C13_LazyAllocation ==
    /\ last.op = "new" => (Len(buckets) = 0 /\ items = 0)
    /\ Len(buckets) = 0 <=> ~everInserted
    /\ (last.op = "insert" /\ ~last.preInserted) =>
           /\ buckets = << << <<last.key, last.value>> >> >>
           /\ items = 1
    /\ (everInserted /\ items = 0) => Len(buckets) >= 1

\* After the first insert its entry was removed: the one bucket stays.
C13_Witness ==
    /\ last.op = "remove"
    /\ last.ret # None
    /\ items = 0
    /\ everInserted
    /\ Len(buckets) = 1

\* C14: remove(k) of a present key takes out that one entry by swap with the
\* last and pop: the bucket count and every other bucket are unchanged, k's
\* bucket keeps its multiset of entries minus the removed one with the former
\* last entry at the removed position, and get(j) is unchanged for j # k.
C14_RemoveFrame ==
    (last.op = "remove" /\ last.ret # None) =>
        LET pre == last.preBuckets
            bi == CHOOSE i \in DOMAIN pre : last.key \in KeysOf(pre[i])
            pos == CHOOSE p \in DOMAIN pre[bi] : pre[bi][p][1] = last.key
            n == Len(pre[bi])
        IN /\ Len(buckets) = Len(pre)
           /\ \A i \in DOMAIN pre : i # bi => buckets[i] = pre[i]
           /\ Len(buckets[bi]) = n - 1
           /\ BagOf(Append(buckets[bi], pre[bi][pos])) = BagOf(pre[bi])
           /\ pos < n => buckets[bi][pos] = pre[bi][n]
           /\ \A p \in 1..(n - 1) : p # pos => buckets[bi][p] = pre[bi][p]
           /\ \A j \in Keys : j # last.key => Get(buckets, j) = Get(pre, j)

\* The first of three entries of one bucket was removed.
C14_Witness ==
    /\ last.op = "remove"
    /\ last.ret # None
    /\ \E i \in DOMAIN last.preBuckets :
           /\ Len(last.preBuckets[i]) = 3
           /\ last.preBuckets[i][1][1] = last.key

ReadOps == {"get", "contains_key", "len", "is_empty"}

\* C15: remove(k) of an absent key returns none and leaves count, bucket
\* count and every bucket unchanged; get, contains_key, len and is_empty never
\* change count, bucket count or any bucket, key present or not.
C15_AbsenceChangesNothing ==
    /\ (last.op = "remove" /\ last.key \notin KeysOf(Flatten(last.preBuckets))) =>
           /\ last.ret = None
           /\ ~panicked
           /\ buckets = last.preBuckets
           /\ items = last.preItems
    /\ last.op \in ReadOps =>
           /\ buckets = last.preBuckets
           /\ items = last.preItems

\* remove of an absent key whose bucket holds another key's entry.
C15_Witness ==
    /\ last.op = "remove"
    /\ last.ret = None
    /\ Len(buckets) >= 2
    /\ Bucket(buckets, last.key) # None
    /\ buckets[Bucket(buckets, last.key)[1] + 1] # <<>>

\* C16: a fresh iterator yields bucket 0's entries first to last, then
\* bucket 1's, and so on to the last bucket, skipping empty buckets; on a
\* table with zero buckets the first call of next returns none.
C16_IterationOrder ==
    /\ iter.active =>
           /\ Len(yielded) <= Len(Entries)
           /\ yielded = SubSeq(Entries, 1, Len(yielded))
    /\ (last.op = "next" /\ last.ret # None) => last.ret[1] = Entries[Len(yielded)]
    /\ (last.op = "next" /\ last.ret = None) => yielded = Entries
    /\ (last.op = "next" /\ Len(buckets) = 0) => last.ret = None

\* The iterator ended over four buckets of which bucket 0 is empty and two
\* later ones are not.
C16_Witness ==
    /\ last.op = "next"
    /\ last.ret = None
    /\ Len(buckets) = 4
    /\ buckets[1] = <<>>
    /\ Cardinality({i \in DOMAIN buckets : buckets[i] # <<>>}) >= 2
    /\ Len(yielded) = 3

\* C17: no public operation panics: in insert a bucket exists after the load
\* check, so the expect never fails; every computed bucket index is in
\* [0, bucket_count); remove decrements count only when count >= 1.
C17_NoPanic ==
    /\ ~panicked
    /\ last.op = "insert" => (Len(last.mid) >= 1 /\ Bucket(last.mid, last.key) # None)
    /\ \A k \in Keys :
           Bucket(buckets, k) # None =>
               (0 <= Bucket(buckets, k)[1] /\ Bucket(buckets, k)[1] < Len(buckets))
    /\ (last.op = "remove" /\ last.ret # None) => last.preItems >= 1
    /\ items >= 0

\* remove took the only counted entry of a table that had grown: the
\* decrement ran at count 1.
C17_Witness ==
    /\ last.op = "remove"
    /\ last.ret # None
    /\ last.preItems = 1
    /\ Len(buckets) >= 2
    /\ ~panicked

\* C18: every call of next terminates, advancing the bucket cursor at most
\* bucket_count times; over a table of count entries call number count + 1
\* returns none and so does every later call; the cursor never moves back.
C18_IterTerminates ==
    /\ iter.active => iter.bucket <= Len(buckets)
    /\ last.op = "next" =>
           /\ iter.bucket >= last.preIter.bucket
           /\ iter.bucket - last.preIter.bucket <= Len(buckets)
           /\ iter.bucket = last.preIter.bucket => iter.at >= last.preIter.at
           /\ iter.calls <= items => last.ret # None
           /\ iter.calls >= items + 1 => last.ret = None

\* A call made after the iterator had already returned none, over a table
\* whose first two buckets are empty.
C18_Witness ==
    /\ last.op = "next"
    /\ iter.calls = items + 2
    /\ last.ret = None
    /\ items >= 1
    /\ Len(buckets) = 4
    /\ buckets[1] = <<>>
    /\ buckets[2] = <<>>

====
